---- MODULE Spec2Model ----
(***************************************************************************)
(* A model of ToyVec<T> (src/src/lib.rs): a growable vector backed by a    *)
(* boxed slice whose slots are always initialised, and its borrowing       *)
(* forward iterator Iter<'vec, T>.                                         *)
(*                                                                         *)
(* T is modelled as the integers 0..MaxVal with Default::default() = 0.    *)
(* A Box<[T]> is a sequence; slot i of the source is element i+1 here.     *)
(* Option<T> is a sequence of length at most one: None = <<>>,             *)
(* Some(v) = <<v>>.  An out-of-bounds slice index panics in Rust; the      *)
(* model records that in the variable fault.                               *)
(***************************************************************************)
EXTENDS Integers, Sequences, FiniteSets, TLC

\* ---------------------------------------------------------------- bounds
MaxVal == 1          \* element values are 0..MaxVal
MaxInitCap == 1      \* with_capacity(n) is called with n in 0..MaxInitCap
MaxPush == 3         \* at most this many calls of push in one run
MaxExtraNext == 2    \* calls of next() made after the iterator is exhausted
FarIndex == 1000     \* an index far beyond the capacity

Values == 0..MaxVal

\* <T as Default>::default()
Default == 0

None == <<>>
Some(v) == <<v>>

VARIABLES
    elements,     \* ToyVec.elements : Box<[T]>
    len,          \* ToyVec.len
    iter_alive,   \* an Iter<'vec, T> borrowing self.elements is alive
    iter_len,     \* Iter.len
    iter_pos,     \* Iter.pos
    iter_elements,\* Iter.elements: the block as it was when iter() borrowed it
    iter_calls,   \* how many times next() was called on the live iterator
    yielded,      \* the items the live iterator has returned, in order
    fault,        \* a slice index was out of bounds (panic)
    call,         \* the last call [op, arg, ret, len0, cap0]: len0 and
                  \* cap0 are len() and capacity() before the call
    prev,         \* the call before the last one, as Brief keeps it
    live,         \* arguments of the pushes not yet undone by a pop, in order
    nPush,        \* number of push calls so far
    popped,       \* pop was called at least once
    init_cap,     \* the capacity the vector was constructed with
    max_len       \* the largest length the vector has had so far

vars == <<elements, len, iter_alive, iter_len, iter_pos, iter_elements,
          iter_calls, yielded,
          fault, call, prev, live, nPush, popped, init_cap, max_len>>

\* -------------------------------------------------------- pure functions

\* fn allocate_in_heap(size) -> Box<[T]>
allocate_in_heap(size) == [i \in 1..size |-> Default]

\* mutant of with_capacity: takes the allocated slots for elements (len: capacity)
with_capacity_all_live(n) == [elements |-> allocate_in_heap(n), len |-> n]

\* pub fn with_capacity(capacity) -> Self
with_capacity(n) == [elements |-> allocate_in_heap(n), len |-> 0]

\* pub fn new() -> Self
new == with_capacity(0)

\* pub fn capacity(&self) -> usize
capacity(els) == Len(els)

\* the loop of grow: for (i, elem) in old_elements ... { self.elements[i] = elem }
RECURSIVE move_elements(_, _, _)
move_elements(new_elements, old_elements, i) ==
    IF i > Len(old_elements) THEN new_elements
    ELSE move_elements([new_elements EXCEPT ![i] = old_elements[i]],
                       old_elements, i + 1)

\* mutant of grow: grows by one slot instead of doubling
grow_by_one(els) ==
    IF capacity(els) = 0 THEN allocate_in_heap(1)
    ELSE move_elements(allocate_in_heap(capacity(els) + 1), els, 1)

\* mutant of grow: installs the new block without moving the elements over
grow_without_move(els) ==
    IF capacity(els) = 0 THEN allocate_in_heap(1)
    ELSE allocate_in_heap(capacity(els) * 2)

\* fn grow(&mut self): the new value of self.elements
grow(els) ==
    IF capacity(els) = 0 THEN allocate_in_heap(1)
    ELSE move_elements(allocate_in_heap(capacity(els) * 2), els, 1)

\* mutant of push: stores the element in slot 0 instead of slot len
push_first_slot(els, l, element) ==
    LET grown == IF l = capacity(els) THEN grow(els) ELSE els
    IN  IF 0 < Len(grown)
        THEN [elements |-> [grown EXCEPT ![1] = element],
              len |-> l + 1, fault |-> FALSE]
        ELSE [elements |-> grown, len |-> l, fault |-> TRUE]

\* mutant of push: grows one push early (when the last free slot is taken)
push_grows_early(els, l, element) ==
    LET grown == IF l + 1 >= capacity(els) THEN grow(els) ELSE els
    IN  IF l < Len(grown)
        THEN [elements |-> [grown EXCEPT ![l + 1] = element],
              len |-> l + 1, fault |-> FALSE]
        ELSE [elements |-> grown, len |-> l, fault |-> TRUE]

\* pub fn push(&mut self, element: T)
push(els, l, element) ==
    LET grown == IF l = capacity(els) THEN grow(els) ELSE els
    IN  IF l < Len(grown)
        THEN [elements |-> [grown EXCEPT ![l + 1] = element],
              len |-> l + 1, fault |-> FALSE]
        ELSE [elements |-> grown, len |-> l, fault |-> TRUE]

\* mutant of get: compares the index with the capacity instead of the length
get_below_capacity(els, l, index) ==
    IF index < capacity(els) THEN Some(els[index + 1]) ELSE None

\* pub fn get(&self, index: usize) -> Option<&T>
get(els, l, index) ==
    IF index < l
    THEN IF index < Len(els) THEN Some(els[index + 1]) ELSE None
    ELSE None

\* get() indexes self.elements[index] only when index < len: does it panic?
get_faults(els, l, index) == index < l /\ ~(index < Len(els))

\* mutant of get_or: falls back to the default only beyond the capacity
get_or_below_capacity(els, l, index, default) ==
    IF index < capacity(els) THEN els[index + 1] ELSE default

\* pub fn get_or(&self, index, default: &T) -> &T: get(index).unwrap_or(default)
get_or(els, l, index, default) ==
    LET found == get(els, l, index)
    IN  IF found # None THEN found[1] ELSE default

\* mutant of pop: no test for the empty vector
pop_no_guard(els, l) ==
    IF l - 1 >= 0 /\ l - 1 < Len(els)
    THEN [elements |-> [els EXCEPT ![l] = Default], len |-> l - 1,
          ret |-> Some(els[l]), fault |-> FALSE]
    ELSE [elements |-> els, len |-> l - 1, ret |-> None, fault |-> TRUE]

\* mutant of pop: reads the slot after it was overwritten with the default
pop_reads_after_replace(els, l) ==
    IF l = 0
    THEN [elements |-> els, len |-> l, ret |-> None, fault |-> FALSE]
    ELSE IF l - 1 < Len(els)
         THEN [elements |-> [els EXCEPT ![l] = Default], len |-> l - 1,
               ret |-> Some(Default), fault |-> FALSE]
         ELSE [elements |-> els, len |-> l - 1, ret |-> None, fault |-> TRUE]

\* mutant of pop: forgets self.len -= 1
pop_keeps_len(els, l) ==
    IF l = 0
    THEN [elements |-> els, len |-> l, ret |-> None, fault |-> FALSE]
    ELSE IF l - 1 < Len(els)
         THEN [elements |-> [els EXCEPT ![l] = Default], len |-> l,
               ret |-> Some(els[l]), fault |-> FALSE]
         ELSE [elements |-> els, len |-> l, ret |-> None, fault |-> TRUE]

\* mutant of pop: gives the unused slots back (shrinks the block to len)
pop_shrinks(els, l) ==
    IF l = 0
    THEN [elements |-> SubSeq(els, 1, 0), len |-> l, ret |-> None,
          fault |-> FALSE]
    ELSE IF l - 1 < Len(els)
         THEN [elements |-> SubSeq(els, 1, l - 1), len |-> l - 1,
               ret |-> Some(els[l]), fault |-> FALSE]
         ELSE [elements |-> els, len |-> l - 1, ret |-> None, fault |-> TRUE]

\* mutant of pop: returns a copy and leaves the value in the vacated slot
pop_leaves_value(els, l) ==
    IF l = 0
    THEN [elements |-> els, len |-> l, ret |-> None, fault |-> FALSE]
    ELSE IF l - 1 < Len(els)
         THEN [elements |-> els, len |-> l - 1,
               ret |-> Some(els[l]), fault |-> FALSE]
         ELSE [elements |-> els, len |-> l - 1, ret |-> None, fault |-> TRUE]

\* mutant of pop: hands out the oldest element (slot 0) instead of the last
pop_returns_first(els, l) ==
    IF l = 0
    THEN [elements |-> els, len |-> l, ret |-> None, fault |-> FALSE]
    ELSE IF l - 1 < Len(els)
         THEN [elements |-> [els EXCEPT ![l] = Default], len |-> l - 1,
               ret |-> Some(els[1]), fault |-> FALSE]
         ELSE [elements |-> els, len |-> l - 1, ret |-> None, fault |-> TRUE]

\* pub fn pop(&mut self) -> Option<T>
pop(els, l) ==
    IF l = 0
    THEN [elements |-> els, len |-> l, ret |-> None, fault |-> FALSE]
    ELSE IF l - 1 < Len(els)
         THEN [elements |-> [els EXCEPT ![l] = Default], len |-> l - 1,
               ret |-> Some(els[l]), fault |-> FALSE]
         ELSE [elements |-> els, len |-> l - 1, ret |-> None, fault |-> TRUE]

\* mutant of iter: snapshots the capacity instead of the length
iter_over_capacity(els, l) == [len |-> capacity(els), pos |-> 0]

\* pub fn iter(&self) -> Iter: the fields len and pos of the new iterator
iter(els, l) == [len |-> l, pos |-> 0]

\* mutant of next: tests pos > len instead of pos >= len
next_off_by_one(els, ilen, pos) ==
    IF pos > ilen
    THEN [ret |-> None, pos |-> pos, fault |-> FALSE]
    ELSE IF pos < Len(els)
         THEN [ret |-> Some(els[pos + 1]), pos |-> pos + 1, fault |-> FALSE]
         ELSE [ret |-> None, pos |-> pos, fault |-> TRUE]

\* mutant of next: advances the cursor before testing for the end
next_always_advances(els, ilen, pos) ==
    IF pos >= ilen
    THEN [ret |-> None, pos |-> pos + 1, fault |-> FALSE]
    ELSE IF pos < Len(els)
         THEN [ret |-> Some(els[pos + 1]), pos |-> pos + 1, fault |-> FALSE]
         ELSE [ret |-> None, pos |-> pos, fault |-> TRUE]

\* fn next(&mut self) -> Option<&'vec T>
next(els, ilen, pos) ==
    IF pos >= ilen
    THEN [ret |-> None, pos |-> pos, fault |-> FALSE]
    ELSE IF pos < Len(els)
         THEN [ret |-> Some(els[pos + 1]), pos |-> pos + 1, fault |-> FALSE]
         ELSE [ret |-> None, pos |-> pos, fault |-> TRUE]

\* ------------------------------------------------------------ the machine

Front(s) == SubSeq(s, 1, Len(s) - 1)

NoCall == [op |-> "none", arg |-> <<>>, ret |-> <<>>, len0 |-> 0, cap0 |-> 0]

\* what is kept of a call once another call has followed it: all of a push or
\* a pop, and of any other call only that it did not change the vector
Brief(c) ==
    IF c.op \in {"push", "pop"} THEN c
    ELSE [op |-> "other", arg |-> <<>>, ret |-> <<>>, len0 |-> 0, cap0 |-> 0]

\* the constructor calls a run starts with, each with the vector it returns
Constructions ==
    {[op |-> "new", arg |-> <<>>, vec |-> new]}
    \cup {[op |-> "with_capacity", arg |-> <<n>>, vec |-> with_capacity(n)] :
            n \in 0..MaxInitCap}

\* the state after ToyVec::new() or ToyVec::with_capacity(n)
Init ==
    \E c \in Constructions :
        /\ elements = c.vec.elements
        /\ len = c.vec.len
        /\ init_cap = capacity(c.vec.elements)
        /\ max_len = c.vec.len
        /\ call = [op |-> c.op, arg |-> c.arg, ret |-> <<>>,
                   len0 |-> 0, cap0 |-> 0]
        /\ prev = NoCall
        /\ iter_alive = FALSE
        /\ iter_len = 0
        /\ iter_pos = 0
        /\ iter_elements = <<>>
        /\ iter_calls = 0
        /\ yielded = <<>>
        /\ fault = FALSE
        /\ live = <<>>
        /\ nPush = 0
        /\ popped = FALSE

\* mutant of Push: the iterator keeps no borrow of the vector (a raw
\* pointer instead of &'vec), so push is accepted while it is alive
Push_ignores_borrow ==
    /\ ~fault
    /\ nPush < MaxPush
    /\ \E element \in Values :
         LET r == push(elements, len, element)
         IN  /\ elements' = r.elements
             /\ len' = r.len
             /\ fault' = r.fault
             /\ call' = [op |-> "push", arg |-> <<element>>, ret |-> <<>>,
                         len0 |-> len, cap0 |-> capacity(elements)]
             /\ live' = Append(live, element)
             /\ max_len' = IF r.len > max_len THEN r.len ELSE max_len
    /\ prev' = Brief(call)
    /\ nPush' = nPush + 1
    /\ UNCHANGED <<iter_alive, iter_len, iter_pos, iter_elements, iter_calls,
                   yielded, popped, init_cap>>

\* a call of push(element); &mut self: no iterator may be alive
Push ==
    /\ ~fault /\ ~iter_alive
    /\ nPush < MaxPush
    /\ \E element \in Values :
         LET r == push(elements, len, element)
         IN  /\ elements' = r.elements
             /\ len' = r.len
             /\ fault' = r.fault
             /\ call' = [op |-> "push", arg |-> <<element>>, ret |-> <<>>,
                         len0 |-> len, cap0 |-> capacity(elements)]
             /\ live' = Append(live, element)
             /\ max_len' = IF r.len > max_len THEN r.len ELSE max_len
    /\ prev' = Brief(call)
    /\ nPush' = nPush + 1
    /\ UNCHANGED <<iter_alive, iter_len, iter_pos, iter_elements, iter_calls,
                   yielded,
                   popped, init_cap>>

\* a call of pop(); &mut self: no iterator may be alive
Pop ==
    /\ ~fault /\ ~iter_alive
    /\ LET r == pop(elements, len)
       IN  /\ elements' = r.elements
           /\ len' = r.len
           /\ fault' = r.fault
           /\ call' = [op |-> "pop", arg |-> <<>>, ret |-> r.ret,
                       len0 |-> len, cap0 |-> capacity(elements)]
    /\ live' = Front(live)
    /\ prev' = Brief(call)
    /\ popped' = TRUE
    /\ UNCHANGED <<iter_alive, iter_len, iter_pos, iter_elements, iter_calls,
                   yielded,
                   nPush, init_cap, max_len>>

\* the indices get() is called with: every slot, the capacity, one past it,
\* and one far beyond it
Indices == (0..(capacity(elements) + 1)) \cup {capacity(elements) + FarIndex}

\* a call of len(); &self
LenCall ==
    /\ ~fault
    /\ call' = [op |-> "len", arg |-> <<>>, ret |-> <<len>>, len0 |-> len,
                cap0 |-> capacity(elements)]
    /\ prev' = Brief(call)
    /\ UNCHANGED <<elements, len, iter_alive, iter_len, iter_pos, iter_elements,
                   iter_calls, yielded, fault, live, nPush, popped, init_cap, max_len>>

\* a call of capacity(); &self
CapacityCall ==
    /\ ~fault
    /\ call' = [op |-> "capacity", arg |-> <<>>,
                ret |-> <<capacity(elements)>>, len0 |-> len,
                cap0 |-> capacity(elements)]
    /\ prev' = Brief(call)
    /\ UNCHANGED <<elements, len, iter_alive, iter_len, iter_pos, iter_elements,
                   iter_calls, yielded, fault, live, nPush, popped, init_cap, max_len>>

\* mutant of Get: moves the element out of its slot (mem::replace, as pop
\* does) instead of borrowing it
Get_takes_element ==
    /\ ~fault
    /\ \E index \in Indices :
         /\ call' = [op |-> "get", arg |-> <<index>>,
                     ret |-> get(elements, len, index), len0 |-> len,
                     cap0 |-> capacity(elements)]
         /\ fault' = get_faults(elements, len, index)
         /\ elements' = IF index < len /\ index < Len(elements)
                        THEN [elements EXCEPT ![index + 1] = Default]
                        ELSE elements
    /\ prev' = Brief(call)
    /\ UNCHANGED <<len, iter_alive, iter_len, iter_pos, iter_elements,
                   iter_calls, yielded, live, nPush, popped, init_cap, max_len>>

\* a call of get(index); &self: allowed while an iterator is alive
Get ==
    /\ ~fault
    /\ \E index \in Indices :
         /\ call' = [op |-> "get", arg |-> <<index>>,
                     ret |-> get(elements, len, index), len0 |-> len,
                     cap0 |-> capacity(elements)]
         /\ fault' = get_faults(elements, len, index)
    /\ prev' = Brief(call)
    /\ UNCHANGED <<elements, len, iter_alive, iter_len, iter_pos, iter_elements,
                   iter_calls,
                   yielded, live, nPush, popped, init_cap, max_len>>

\* a call of get_or(index, default); &self
GetOr ==
    /\ ~fault
    /\ \E index \in Indices, default \in Values :
         /\ call' = [op |-> "get_or", arg |-> <<index, default>>,
                     ret |-> <<get_or(elements, len, index, default)>>,
                     len0 |-> len, cap0 |-> capacity(elements)]
         /\ fault' = get_faults(elements, len, index)
    /\ prev' = Brief(call)
    /\ UNCHANGED <<elements, len, iter_alive, iter_len, iter_pos, iter_elements,
                   iter_calls, yielded, live, nPush, popped, init_cap, max_len>>

\* a call of iter()
Iter ==
    /\ ~fault /\ ~iter_alive
    /\ iter_alive' = TRUE
    /\ iter_len' = iter(elements, len).len
    /\ iter_pos' = iter(elements, len).pos
    /\ iter_elements' = elements
    /\ iter_calls' = 0
    /\ yielded' = <<>>
    /\ call' = [op |-> "iter", arg |-> <<>>, ret |-> <<>>, len0 |-> len,
                cap0 |-> capacity(elements)]
    /\ prev' = Brief(call)
    /\ UNCHANGED <<elements, len, fault, live, nPush, popped, init_cap, max_len>>

\* a call of next() on the live iterator
Next_ ==
    /\ ~fault /\ iter_alive
    /\ iter_calls < iter_len + MaxExtraNext
    /\ LET r == next(elements, iter_len, iter_pos)
       IN  /\ iter_pos' = r.pos
           /\ fault' = r.fault
           /\ yielded' = yielded \o r.ret
           /\ call' = [op |-> "next", arg |-> <<>>, ret |-> r.ret,
                       len0 |-> len, cap0 |-> capacity(elements)]
    /\ iter_calls' = iter_calls + 1
    /\ prev' = Brief(call)
    /\ UNCHANGED <<elements, len, iter_alive, iter_len, iter_elements, live,
                   nPush, popped,
                   init_cap, max_len>>

\* the iterator and the references it yielded go out of scope
DropIter ==
    /\ ~fault /\ iter_alive
    /\ iter_alive' = FALSE
    /\ iter_len' = 0
    /\ iter_pos' = 0
    /\ iter_elements' = <<>>
    /\ iter_calls' = 0
    /\ yielded' = <<>>
    /\ call' = [op |-> "drop_iter", arg |-> <<>>, ret |-> <<>>, len0 |-> len,
                cap0 |-> capacity(elements)]
    /\ prev' = Brief(call)
    /\ UNCHANGED <<elements, len, fault, live, nPush, popped, init_cap, max_len>>

Next ==
    \/ Push \/ Pop \/ LenCall \/ CapacityCall \/ Get \/ GetOr
    \/ Iter \/ Next_ \/ DropIter

Spec == Init /\ [][Next]_vars

\* ----------------------------------------------------------------- claims

\* C1: in every state reached from with_capacity(n) (new() is n = 0) by push
\* and pop, 0 <= len() <= capacity(), and capacity() is the number of slots
\* of the backing storage.
C1_LenWithinCapacity ==
    /\ 0 <= len
    /\ len <= capacity(elements)
    /\ capacity(elements) = Cardinality(DOMAIN elements)

\* C1 witness: after pushes and a pop, a full vector (len = capacity >= 2)
C1_Witness ==
    /\ popped /\ call.op = "push"
    /\ len = capacity(elements) /\ len >= 2

\* C2: after push(v) on a vector of length L the length is L+1 and get(L)
\* returns v, whether or not the push had to grow the storage.
C2_PushThenGet ==
    call.op = "push" =>
        /\ ~fault
        /\ len = call.len0 + 1
        /\ get(elements, len, call.len0) = Some(call.arg[1])

\* C2 witness: a push of a non-default value that grew a block of >= 2 slots
C2_Witness ==
    /\ call.op = "push" /\ call.arg = <<1>>
    /\ call.len0 = call.cap0 /\ call.cap0 >= 2
    /\ capacity(elements) = 2 * call.cap0

\* C3: pop() on a vector of length L > 0 returns what get(L-1) returned just
\* before, sets the length to L-1 and leaves the elements 0..L-2 unchanged.
C3_PopReturnsLast ==
    [][(call'.op = "pop" /\ len > 0) =>
          /\ ~fault'
          /\ call'.ret = get(elements, len, len - 1)
          /\ len' = len - 1
          /\ \A i \in 0..(len - 2) :
                get(elements', len', i) = get(elements, len, i)]_vars

\* C3 witness: a pop that took a non-default value off a vector of length >= 2
C3_Witness ==
    /\ call.op = "pop" /\ call.len0 >= 2 /\ call.ret = Some(1)
    /\ len = call.len0 - 1

\* C4: push(v) immediately followed by x = pop() gives x = v and the length
\* the vector had before the push.
C4_PushPopRoundTrip ==
    (call.op = "pop" /\ prev.op = "push") =>
        /\ ~fault
        /\ call.ret = Some(prev.arg[1])
        /\ len = prev.len0

\* C4 witness: the push grew the storage, and the pop gave the value back
C4_Witness ==
    /\ call.op = "pop" /\ prev.op = "push"
    /\ prev.len0 = prev.cap0 /\ prev.len0 >= 1
    /\ prev.arg = <<1>> /\ call.ret = Some(1)

\* C5: get(index) never faults; it returns None for every index >= len()
\* (a slot below the capacity, the capacity itself, an index far beyond it)
\* and the element at that index for index < len().
C5_GetTotal ==
    call.op = "get" =>
        /\ ~fault
        /\ call.arg[1] >= len => call.ret = None
        /\ call.arg[1] < len => call.ret = Some(live[call.arg[1] + 1])

\* C5 witness: get of a slot that exists (index < capacity) and once held a
\* value, but lies beyond the length
C5_Witness ==
    /\ call.op = "get" /\ popped /\ nPush >= 2
    /\ len <= call.arg[1] /\ call.arg[1] < capacity(elements)
    /\ call.ret = None

\* C6: pop() on a vector of length 0 returns None and leaves the length, the
\* capacity and every slot unchanged.
C6_PopEmpty ==
    [][(call'.op = "pop" /\ len = 0) =>
          /\ ~fault'
          /\ call'.ret = None
          /\ len' = len
          /\ capacity(elements') = capacity(elements)
          /\ elements' = elements]_vars

\* C6 witness: pop on a vector that earlier pops have emptied again
C6_Witness ==
    /\ call.op = "pop" /\ call.len0 = 0 /\ call.ret = None
    /\ nPush >= 1 /\ capacity(elements) >= 1

RECURSIVE pow2_at_least(_, _)
pow2_at_least(p, k) == IF p >= k THEN p ELSE pow2_at_least(2 * p, k)

\* the smallest value of 1, 2, 4, 8, ... that is >= k
SmallestPow2(k) == pow2_at_least(1, k)

\* C7: starting from with_capacity(0), after exactly k >= 1 pushes (and no
\* pop) capacity() is the smallest power of two >= k.
C7_GrowthDoubling ==
    (init_cap = 0 /\ ~popped /\ nPush >= 1) =>
        capacity(elements) = SmallestPow2(nPush)

\* C7 witness: three pushes from capacity 0 give capacity 4
C7_Witness ==
    /\ init_cap = 0 /\ ~popped /\ nPush = 3
    /\ capacity(elements) = 4 /\ len = 3

\* C8: an iterator yields the live elements in index order, never a slot
\* beyond the length, and when it reports exhausted it has yielded exactly
\* the live elements.
C8_IterationComplete ==
    iter_alive =>
        /\ Len(yielded) <= len
        /\ yielded = SubSeq(live, 1, Len(yielded))
        /\ (call.op = "next" /\ call.ret = None) => yielded = live

\* C8 witness: an exhausted iterator over a vector built by pushes and
\* pops, with default-filled slots beyond the length
C8_Witness ==
    /\ iter_alive /\ call.op = "next" /\ call.ret = None
    /\ popped /\ Len(yielded) >= 2 /\ yielded = live
    /\ len < capacity(elements)

\* C9: an iterator with snapshot length n yields on its first n calls of
\* next(), returns exhausted on call n+1, and on every later call returns
\* exhausted again without moving the cursor and without faulting.
C9_ExhaustionStable ==
    /\ [](call.op = "next" =>
            /\ ~fault
            /\ iter_calls <= iter_len => call.ret # None
            /\ iter_calls > iter_len =>
                  (call.ret = None /\ iter_pos = iter_len))
    /\ [][(call'.op = "next" /\ iter_alive /\ iter_pos >= iter_len) =>
             (call'.ret = None /\ iter_pos' = iter_pos /\ ~fault')]_vars

\* C9 witness: the second call of next() after the last element
C9_Witness ==
    /\ call.op = "next" /\ prev.op = "other"
    /\ iter_len >= 2 /\ iter_calls = iter_len + 2
    /\ call.ret = None /\ iter_pos = iter_len

\* C10: capacity never shrinks: no push or pop lowers capacity(), and pop()
\* leaves it exactly unchanged, on an empty and on a non-empty vector.
C10_CapacityNeverShrinks ==
    [][/\ capacity(elements') >= capacity(elements)
       /\ call'.op = "pop" => capacity(elements') = capacity(elements)]_vars

\* C10 witness: a vector of capacity 4 popped down to at most one element
C10_Witness ==
    /\ call.op = "pop" /\ call.ret # None
    /\ call.cap0 = 4 /\ capacity(elements) = 4 /\ len <= 1

\* C11: while an iterator is alive the vector is only read: no push or pop
\* (hence no grow) runs, other read-only calls may, and the block and length
\* the iterator reads are the ones it borrowed when it was created.
C11_AliasingDiscipline ==
    /\ [](iter_alive =>
            /\ iter_elements = elements
            /\ iter_len = len
            /\ call.op \in {"iter", "next", "get", "get_or", "len",
                            "capacity"})
    /\ [][(iter_alive /\ iter_alive') =>
             (elements' = elements /\ len' = len
              /\ capacity(elements') = capacity(elements))]_vars

\* C11 witness: the second next() of an iterator yields from a full block
\* (a push would reallocate it), which is still the block it borrowed
C11_Witness ==
    /\ iter_alive /\ call.op = "next" /\ iter_calls >= 2
    /\ call.ret = Some(1)
    /\ len = capacity(elements) /\ len >= 2
    /\ iter_elements = elements

\* C12: get_or(index, default) returns what get(index) returns when
\* index < len(), returns the supplied default when index >= len(), and
\* never faults.
C12_GetOr ==
    call.op = "get_or" =>
        /\ ~fault
        /\ call.arg[1] < len =>
              /\ Some(call.ret[1]) = get(elements, len, call.arg[1])
              /\ call.ret[1] = live[call.arg[1] + 1]
        /\ call.arg[1] >= len => call.ret[1] = call.arg[2]

\* C12 witness: get_or of a slot below the capacity but beyond the length,
\* with a default that differs from the slot's content
C12_Witness ==
    /\ call.op = "get_or" /\ popped
    /\ len <= call.arg[1] /\ call.arg[1] < capacity(elements)
    /\ call.arg[2] = 1 /\ call.ret = <<1>>

\* the calls that take &self or only touch the iterator
ReadOnlyOps == {"len", "capacity", "get", "get_or", "iter", "next"}

\* C13: len(), capacity(), get(), get_or(), iter() and every next() leave
\* the vector's length, capacity and all slot values as they were.
C13_ReadOnlyFrame ==
    [][call'.op \in ReadOnlyOps =>
          /\ len' = len
          /\ capacity(elements') = capacity(elements)
          /\ elements' = elements]_vars

\* C13 witness: get() returned a non-default element that next() had
\* already yielded, and both are still in place
C13_Witness ==
    /\ call.op = "get" /\ call.ret = Some(1) /\ prev.op = "other"
    /\ iter_alive /\ 1 \in {yielded[i] : i \in 1..Len(yielded)}
    /\ elements[call.arg[1] + 1] = 1 /\ len >= 2

\* C14: new() gives length 0 and capacity 0; with_capacity(n) gives length 0
\* and capacity exactly n with every slot holding the default value; in both
\* cases get(i) is absent for every i.
C14_Construction ==
    call.op \in {"new", "with_capacity"} =>
        /\ len = 0
        /\ call.op = "new" => capacity(elements) = 0
        /\ call.op = "with_capacity" => capacity(elements) = call.arg[1]
        /\ \A i \in 1..capacity(elements) : elements[i] = Default
        /\ \A index \in Indices :
              /\ get(elements, len, index) = None
              /\ ~get_faults(elements, len, index)

\* C14 witness: the vector with_capacity(1) returns, with one slot
C14_Witness ==
    /\ call.op = "with_capacity" /\ call.arg = <<1>>
    /\ capacity(elements) = 1 /\ elements = <<Default>> /\ len = 0

\* C15: in every state reached by push and pop, growth included, every slot
\* at an index in [len(), capacity()) holds the default value.
C15_DefaultFilledTail ==
    \A i \in (len + 1)..capacity(elements) : elements[i] = Default

\* C15 witness: a grown block from which a non-default value was popped,
\* with at least two slots beyond the length
C15_Witness ==
    /\ call.op = "pop" /\ call.ret = Some(1)
    /\ capacity(elements) > init_cap
    /\ capacity(elements) >= len + 2

\* C16: a push changes the capacity if and only if len() = capacity() before
\* it; the new capacity is then 1 if the old one was 0 and twice the old one
\* otherwise.  After with_capacity(n), n > 0, the first n pushes leave the
\* capacity at n and push n+1 makes it 2n.
C16_GrowthStepRule ==
    /\ call.op = "push" =>
          /\ (capacity(elements) # call.cap0) <=> (call.len0 = call.cap0)
          /\ call.len0 = call.cap0 =>
                capacity(elements) = IF call.cap0 = 0 THEN 1
                                     ELSE 2 * call.cap0
    /\ (init_cap > 0 /\ ~popped) =>
          /\ nPush <= init_cap => capacity(elements) = init_cap
          /\ nPush = init_cap + 1 => capacity(elements) = 2 * init_cap

\* C16 witness: push n+1 after with_capacity(n), n > 0, doubled the capacity
C16_Witness ==
    /\ init_cap > 0 /\ ~popped /\ nPush = init_cap + 1
    /\ call.op = "push" /\ call.len0 = call.cap0 /\ call.cap0 = init_cap
    /\ capacity(elements) = 2 * init_cap

\* C17: when a push on a vector of length L triggers grow, the new block
\* holds the old elements 0..L-1 at the same indices (and defaults after
\* them), so get(i) is unchanged for every i < L, and the new value is
\* placed at index L: the length was still L after growing.
C17_GrowthPreservesElements ==
    [][(call'.op = "push" /\ len = capacity(elements)) =>
          /\ SubSeq(grow(elements), 1, len) = SubSeq(elements, 1, len)
          /\ \A i \in (len + 1)..capacity(grow(elements)) :
                grow(elements)[i] = Default
          /\ \A i \in 0..(len - 1) :
                get(elements', len', i) = get(elements, len, i)
          /\ len' = len + 1
          /\ elements' = [grow(elements) EXCEPT ![len + 1] = call'.arg[1]]]_vars

\* C17 witness: a push grew a full block of at least two slots whose first
\* two elements differ, and both are still read back
C17_Witness ==
    /\ call.op = "push" /\ call.len0 = call.cap0 /\ call.cap0 >= 2
    /\ live[1] # live[2]
    /\ get(elements, len, 0) = Some(live[1])
    /\ get(elements, len, 1) = Some(live[2])

\* C18: an iterator starts at position 0 with the snapshot length equal to
\* the vector's length when iter() was called; the snapshot never changes,
\* 0 <= position <= snapshot length holds after every next(), and the
\* position moves only by exactly 1, on a successful yield.
C18_CursorInvariant ==
    /\ [](iter_alive => (0 <= iter_pos /\ iter_pos <= iter_len))
    /\ [](call.op = "iter" => (iter_len = call.len0 /\ iter_pos = 0))
    /\ [][(iter_alive /\ iter_alive') =>
             /\ iter_len' = iter_len
             /\ iter_pos' = iter_pos + (IF call'.op = "next" /\ call'.ret # None
                                        THEN 1 ELSE 0)]_vars

\* C18 witness: the call of next() that finds the iterator exhausted, with
\* the cursor at the snapshot length
C18_Witness ==
    /\ iter_alive /\ call.op = "next" /\ call.ret = None
    /\ iter_calls = iter_len + 1 /\ iter_pos = iter_len /\ iter_len >= 2

\* C19: for a vector created by new() or with_capacity(0), under any
\* interleaving of push and pop, capacity() is 0 if nothing was pushed and
\* otherwise the smallest power of two >= the largest length the vector has
\* ever had, whatever the number of pushes and pops.
C19_CapacityTracksHighWater ==
    init_cap = 0 =>
        capacity(elements) = IF nPush = 0 THEN 0 ELSE SmallestPow2(max_len)

\* C19 witness: three pushes with a pop in between never exceeded length 2:
\* the capacity is 2, not the 4 that three pushes in a row give
C19_Witness ==
    /\ init_cap = 0 /\ popped /\ nPush = 3 /\ max_len = 2
    /\ capacity(elements) = 2 /\ len = 2

\* the abstract sequence: get(index) on the sequence s
AbsGet(s, index) == IF index < Len(s) THEN Some(s[index + 1]) ELSE None

\* the abstract sequence: the result of removing from the end of s
AbsPop(s) == IF s = <<>> THEN None ELSE Some(s[Len(s)])

\* C20: the vector refines the abstract sequence live (append at the end,
\* remove from the end): for any initial capacity, len(), get(i), get_or,
\* pop() and iteration return what the abstract sequence gives, pops come
\* in last-in-first-out order, and no result but capacity()'s depends on
\* the capacity, so vectors built with different capacities and given the
\* same calls differ only in capacity().
C20_RefinesSequence ==
    /\ [](/\ ~fault
          /\ len = Len(live)
          /\ SubSeq(elements, 1, len) = live
          /\ \A index \in Indices :
                get(elements, len, index) = AbsGet(live, index)
          /\ call.op = "len" => call.ret = <<Len(live)>>
          /\ call.op = "get" => call.ret = AbsGet(live, call.arg[1])
          /\ call.op = "get_or" =>
                call.ret = (IF AbsGet(live, call.arg[1]) # None
                            THEN AbsGet(live, call.arg[1])
                            ELSE <<call.arg[2]>>)
          /\ iter_alive => yielded = SubSeq(live, 1, Len(yielded)))
    /\ [][/\ call'.op = "pop" =>
                (call'.ret = AbsPop(live) /\ live' = Front(live))
          /\ call'.op = "push" => live' = Append(live, call'.arg[1])
          /\ call'.op = "next" =>
                call'.ret = AbsGet(live, Len(yielded))]_vars

\* C20 witness: from a vector built with one slot, two pops in a row gave
\* back the last two pushed values, which differ, newest first
C20_Witness ==
    /\ init_cap = 1 /\ call.op = "pop" /\ prev.op = "pop"
    /\ call.ret # None /\ prev.ret # None /\ call.ret # prev.ret
    /\ nPush = 3 /\ Len(live) = 1 /\ capacity(elements) = 4

====
